---- MODULE Spec2Model ----
(***************************************************************************)
(* Model of scriptable-util's file access layer (src/src/FileManager.ts):  *)
(* the DataResponse result type, CustomFileManager and NewFileManager, on  *)
(* top of a model of Scriptable's FileManager backend and of JSON.         *)
(*                                                                         *)
(* Spec is the file operations of accessors constructed on the root d/b,   *)
(* LiveSpec adds the scheduling of continuations, StaticSpec is the static *)
(* functions and ConstructSpec the constructors.                           *)
(*                                                                         *)
(* Strings the code tests with endsWith (file names, paths) are sequences  *)
(* of one-character strings; file contents are opaque strings.             *)
(***************************************************************************)
EXTENDS Naturals, Sequences, FiniteSets

VARIABLES fm, ctor, dirs, fs, dl, call, lastWrite

vars == <<fm, ctor, dirs, fs, dl, call, lastWrite>>

\* ------------------------------------------------------------------ bounds

\* Files the backend holds at once.
MaxFiles == 1

\* Frames of a method that calls itself are counted up to this number.
MaxDepth == 3

\* ------------------------------------------------------------ JS values

\* A JavaScript value: a tag and a printable body.
Undefined == [t |-> "undefined", v |-> ""]
Null == [t |-> "null", v |-> ""]
Str(s) == [t |-> "string", v |-> s]
Dict(s) == [t |-> "dict", v |-> s]
Arr(s) == [t |-> "array", v |-> s]
DataOf(s) == [t |-> "Data", v |-> s]
ImageOf(s) == [t |-> "Image", v |-> s]
Promise == [t |-> "Promise", v |-> ""]

\* {a: 1}, {a: NaN}, {a: null}, [1,2,3], "hi"
ObjA1 == Dict("a:1")
ObjANaN == Dict("a:NaN")
ObjANull == Dict("a:null")
Arr123 == Arr("1,2,3")
StrHi == Str("hi")

\* 0, true and false
Num0 == [t |-> "number", v |-> "0"]
Bool(b) == [t |-> "boolean", v |-> IF b THEN "true" ELSE "false"]

\* typeof x
TypeOf(x) ==
  CASE x.t \in {"dict", "array", "null", "Data", "Image", "Promise"} -> "object"
    [] x.t = "string" -> "string"
    [] x.t = "number" -> "number"
    [] x.t = "boolean" -> "boolean"
    [] OTHER -> "undefined"

\* Array.isArray(x)
IsArray(x) == x.t = "array"

\* x == null (loose equality: null or undefined)
IsNullish(x) == x.t \in {"null", "undefined"}

\* File contents.
TObjA1 == "{\"a\":1}"
TObjANull == "{\"a\":null}"
TArr == "[1,2,3]"
TNull == "null"
TJStr == "\"hi\""
TPlain == "hi"
Texts == {TObjA1, TObjANull, TArr, TNull, TJStr, TPlain}
NoText == "<none>"

\* JSON.stringify(x): NaN is written as null.
JSONstringify(x) ==
  CASE x = ObjA1 -> TObjA1
    [] x = ObjANaN -> TObjANull
    [] x = ObjANull -> TObjANull
    [] x = Arr123 -> TArr
    [] x = Null -> TNull
    [] x = StrHi -> TJStr
    [] OTHER -> TNull

\* JSON.parse(t) throws a SyntaxError on text that is not JSON.
JSONparseThrows(t) == t \notin {TObjA1, TObjANull, TArr, TNull, TJStr}

JSONparse(t) ==
  CASE t = TObjA1 -> ObjA1
    [] t = TObjANull -> ObjANull
    [] t = TArr -> Arr123
    [] t = TNull -> Null
    [] t = TJStr -> StrHi
    [] OTHER -> Undefined

\* ------------------------------------------------------------ strings

DOT == <<".">>
TXT == <<"t", "x", "t">>
JSON == <<"j", "s", "o", "n">>
LOG == <<"l", "o", "g">>
EMPTY == <<>>

\* s.endsWith(suffix)
EndsWith(s, suffix) ==
  /\ Len(suffix) <= Len(s)
  /\ SubSeq(s, Len(s) - Len(suffix) + 1, Len(s)) = suffix

\* ------------------------------------------------------------ FileType

FT_TEXT == "txt"
FT_JSON == "json"
FT_JSON_DICT == "json_dict"
FT_OTHER == ""
FT_LOG == "log"
FileType == {FT_TEXT, FT_JSON, FT_JSON_DICT, FT_OTHER, FT_LOG}

\* ------------------------------------------------------------ DataStatus

OK == "OK"
OFFLINE == "offline"
CACHED == "cached"
ERROR == "error"
NOT_FOUND == "not found"
API_ERROR == "api error"
DataStatus == {OK, OFFLINE, CACHED, ERROR, NOT_FOUND, API_ERROR}

\* ------------------------------------------------------------ DataResponse

\* The test of msg with only null and undefined taken for falsy.
Truthy_anyString(x) == ~IsNullish(x)

\* if (msg) this.msg = msg: a falsy message leaves msg undefined.
Truthy(x) == ~(IsNullish(x) \/ x = Str(""))

\* new DataResponse(data, status, msg)
DataResponse(data, status, msg) ==
  [data |-> data, status |-> status, msg |-> IF Truthy(msg) THEN msg ELSE Undefined]

\* DataResponse.empty(status, msg)
empty(status, msg) == DataResponse(Null, status, msg)

\* notFound with the status of error.
notFound_error(msg) == empty(ERROR, msg)

\* DataResponse.notFound(msg)
notFound(msg) == empty(NOT_FOUND, msg)

\* error that always carries a message.
error_withMessage(msg) == empty(ERROR, Str("m"))

\* DataResponse.error(msg)
error(msg) == empty(ERROR, msg)

\* DataResponse.ok(data, msg)
ok(data, msg) == DataResponse(data, OK, msg)

\* isEmpty that takes every falsy payload for an empty one.
isEmpty_falsy(resp) == ~Truthy(resp.data) \/ resp.data = Num0

\* DataResponse.isEmpty(resp)
isEmpty(resp) == IsNullish(resp.data)

\* An argument left out of a call, and the default value status = DataStatus.OK
\* of the constructor and of empty.
Omitted == "<omitted>"
statusOrDefault(status) == IF status = Omitted THEN OK ELSE status

\* if (msg) console.warn(msg): the warnings DataResponse.empty emits.
emptyWarns_always(msg) == 1

emptyWarns(msg) == IF Truthy(msg) THEN 1 ELSE 0

\* apiError with the status of error.
apiError_error(msg) == empty(ERROR, msg)

\* DataResponse.apiError(msg)
apiError(msg) == empty(API_ERROR, msg)

\* fromDataResponse that keeps the status of the old instance.
fromDataResponse_keepStatus(resp, status) == DataResponse(resp.data, resp.status, resp.msg)

\* DataResponse.fromDataResponse(resp, status)
fromDataResponse(resp, status) == DataResponse(resp.data, status, resp.msg)

\* data instanceof DataResponse
InstanceOfDataResponse(x) == "status" \in DOMAIN x

\* cached that wraps a DataResponse like any other value.
cached_nested(data) == DataResponse(data, CACHED, Undefined)

\* DataResponse.cached(data)
cached(data) ==
  IF InstanceOfDataResponse(data)
  THEN fromDataResponse(data, CACHED)
  ELSE DataResponse(data, CACHED, Undefined)

\* isSuccess that takes OK alone for a success.
isSuccess_okOnly(status) == status = OK

\* DataResponse.isSuccess(status)
isSuccess(status) == status = OK \/ status = CACHED

\* resp.succeeded()
succeeded(resp) == isSuccess(resp.status)

\* resp.isEmpty(), the instance form
thisIsEmpty(resp) == isEmpty(resp)

\* No response: the call raised or has not returned.
NoResponse == [data |-> Undefined, status |-> "-", msg |-> Undefined]

\* ------------------------------------------------------------ backend

\* A constructor that keeps the cloud store when its documentsDirectory() throws.
constructor_iCloudOnly(iCloudThrows, documentsDirectoryThrows) ==
  IF iCloudThrows THEN "local" ELSE "iCloud"

\* The backend a constructor ends with: try { this.fm = FileManager.iCloud();
\* this.fm.documentsDirectory(); } catch (e) { this.fm = FileManager.local(); }
\* given which of the two calls in the try throws.
constructor(iCloudThrows, documentsDirectoryThrows) ==
  IF iCloudThrows \/ documentsDirectoryThrows THEN "local" ELSE "iCloud"

\* What the device did at construction; documentsDirectory() of the cloud store
\* is only called when FileManager.iCloud() returned.
Devices ==
  {d \in [iCloudThrows : BOOLEAN, documentsDirectoryThrows : BOOLEAN] :
     d.iCloudThrows => ~d.documentsDirectoryThrows}

\* fm.documentsDirectory() and the basedir the managers are constructed with.
documentsDirectory == <<"d">>
basedir == <<"b">>

\* fm.joinPath(lhsPath, rhsPath)
joinPath(lhsPath, rhsPath) == lhsPath \o <<"/">> \o rhsPath

\* this.basepath and this.scriptableDir as the constructors set them.
basepath == joinPath(documentsDirectory, basedir)
scriptableDir == documentsDirectory

\* A file of the backend: its path, its content and where its bytes are:
\* "local" (not an iCloud file), "downloaded" (iCloud, bytes on the device) or
\* "remote" (iCloud, bytes not on the device).
CloudStates == {"local", "downloaded", "remote"}

HasFile(files, p) == \E f \in files : f.path = p
FileAt(files, p) == CHOOSE f \in files : f.path = p

\* fm.fileExists(path)
fm_fileExists(files, p) == HasFile(files, p)

\* fm.isFileStoredIniCloud(path)
fm_isFileStoredIniCloud(files, p) ==
  HasFile(files, p) /\ FileAt(files, p).cloud # "local"

\* fm.isFileDownloaded(path): stored in iCloud and downloaded.
fm_isFileDownloaded(files, p) ==
  HasFile(files, p) /\ FileAt(files, p).cloud = "downloaded"

\* fm.read, fm.readString and fm.readImage error if the file does not exist or
\* if it exists in iCloud but has not been downloaded.
fm_readThrows(files, p) ==
  ~HasFile(files, p) \/ FileAt(files, p).cloud = "remote"

\* fm.readString(path), where it does not throw.
fm_readString(files, p) == FileAt(files, p).text

\* The cloud state of a file this device writes.
WrittenCloud == IF fm = "iCloud" THEN "downloaded" ELSE "local"

\* fm.writeString(path, content)
fm_writeString(files, p, content) ==
  {f \in files : f.path # p} \cup {[path |-> p, text |-> content, cloud |-> WrittenCloud]}

\* fm.remove(path)
fm_remove(files, p) == {f \in files : f.path # p}

\* One backend call in the trace of an operation.
Ev(name, p) == [f |-> name, p |-> p]

\* ------------------------------------------------------------ the call

\* What the file at a path is when an operation is called.
Seen(files, p) == IF HasFile(files, p) THEN FileAt(files, p).cloud ELSE "absent"

Idle ==
  [cls |-> "-", op |-> "-", file |-> EMPTY, kind |-> FT_OTHER, configDir |-> TRUE,
   autoExt |-> TRUE, data |-> Undefined, path |-> EMPTY, pc |-> "idle",
   outcome |-> "none", result |-> NoResponse, ret |-> Undefined, seen |-> "absent",
   text |-> NoText, threw |-> "none", trace |-> <<>>,
   arg |-> EMPTY, omitDot |-> FALSE, sret |-> EMPTY, from |-> "-", form |-> "-",
   resp |-> NoResponse, status |-> Omitted, msg |-> Undefined, warns |-> 0,
   depth |-> 0]

\* The part of a call's record that the end of a read fills in.
Finish(c, t) ==
  [c EXCEPT !.pc = "done", !.outcome = t.outcome, !.result = t.result,
            !.text = t.text, !.threw = t.threw, !.trace = c.trace \o t.trace]

\* ------------------------------------------------------------ construction

\* fm.isDirectory(path)
fm_isDirectory(directories, p) == p \in directories

\* fm.createDirectory(path), without intermediate directories: it makes the
\* directory or raises, and raises when a file is at the path.
createDirectoryThrows(files, p, failed) == HasFile(files, p) \/ failed

\* What is at a path when a constructor is called.
rootState(files, directories, p) ==
  IF p \in directories THEN "directory"
  ELSE IF HasFile(files, p) THEN "file" ELSE "absent"

\* A constructor that creates the root whatever is there.
rootMissing_always(directories, p) == TRUE

\* if (!this.fm.isDirectory(this.basepath))
rootMissing(directories, p) == ~fm_isDirectory(directories, p)

\* if (!this.fm.isDirectory(this.basepath)) this.fm.createDirectory(this.basepath)
\* at the end of a constructor whose call record so far is c.
ensureRoot(c, p) ==
  IF ~rootMissing(dirs, p)
  THEN /\ call' = [c EXCEPT !.outcome = "returned", !.trace = <<Ev("isDirectory", p)>>]
       /\ dirs' = dirs
  ELSE \E failed \in BOOLEAN :
         LET throws == createDirectoryThrows(fs, p, failed)
         IN /\ call' = [c EXCEPT !.outcome = IF throws THEN "raised" ELSE "returned",
                                 !.threw = IF throws THEN "createDirectory" ELSE "none",
                                 !.trace = <<Ev("isDirectory", p),
                                             Ev("createDirectory", p)>>]
            /\ dirs' = IF throws THEN dirs ELSE dirs \cup {p}

\* new CustomFileManager(basedir, filestub)
CustomFileManager(dir) ==
  /\ call.pc = "idle"
  /\ fm' = constructor(ctor.iCloudThrows, ctor.documentsDirectoryThrows)
  /\ LET p == joinPath(documentsDirectory, dir)
     IN ensureRoot([Idle EXCEPT !.cls = "C", !.op = "constructor", !.arg = dir,
                                !.form = "given", !.path = p, !.pc = "done",
                                !.seen = rootState(fs, dirs, p)], p)
  /\ UNCHANGED <<ctor, fs, dl, lastWrite>>

\* if (!basedir): the basedir is undefined or the empty string.
noBasedir(dir) == ~dir.given \/ dir.s = EMPTY

\* new NewFileManager(basedir, filestub)
NewFileManager(dir) ==
  /\ call.pc = "idle"
  /\ fm' = constructor(ctor.iCloudThrows, ctor.documentsDirectoryThrows)
  /\ LET c == [Idle EXCEPT !.cls = "N", !.op = "constructor", !.arg = dir.s,
                           !.form = IF dir.given THEN "given" ELSE "undefined",
                           !.pc = "done"]
     IN IF noBasedir(dir)
        THEN /\ call' = [c EXCEPT !.path = documentsDirectory, !.outcome = "returned",
                                  !.seen = rootState(fs, dirs, documentsDirectory)]
             /\ dirs' = dirs
        ELSE LET p == joinPath(documentsDirectory, dir.s)
             IN ensureRoot([c EXCEPT !.path = p, !.seen = rootState(fs, dirs, p)], p)
  /\ UNCHANGED <<ctor, fs, dl, lastWrite>>

\* ------------------------------------------------------------ CustomFileManager

\* extensionByType with the dot put before the value of the enum.
extensionByType_enumValue(type, omitDot) ==
  LET dot == IF omitDot THEN EMPTY ELSE DOT
  IN CASE type = FT_TEXT -> dot \o TXT
       [] type = FT_JSON -> dot \o JSON
       [] type = FT_JSON_DICT -> dot \o JSON \o <<"_", "d", "i", "c", "t">>
       [] type = FT_LOG -> dot \o LOG
       [] OTHER -> EMPTY

\* extensionByType(type, omitDot)
extensionByType(type, omitDot) ==
  LET dot == IF omitDot THEN EMPTY ELSE DOT
  IN CASE type = FT_TEXT -> dot \o TXT
       [] type \in {FT_JSON_DICT, FT_JSON} -> dot \o JSON
       [] type = FT_LOG -> dot \o LOG
       [] OTHER -> EMPTY

\* typeByExtension whose default branch returns FileType.OTHER.
typeByExtension_other(extension) ==
  CASE extension = TXT -> [outcome |-> "returned", type |-> FT_TEXT]
    [] extension = JSON -> [outcome |-> "returned", type |-> FT_JSON]
    [] extension = LOG -> [outcome |-> "returned", type |-> FT_LOG]
    [] OTHER -> [outcome |-> "returned", type |-> FT_OTHER]

\* typeByExtension with the cases of json and log exchanged.
typeByExtension_swapped(extension) ==
  CASE extension = TXT -> [outcome |-> "returned", type |-> FT_TEXT]
    [] extension = JSON -> [outcome |-> "returned", type |-> FT_LOG]
    [] extension = LOG -> [outcome |-> "returned", type |-> FT_JSON]
    [] OTHER -> [outcome |-> "raised", type |-> FT_OTHER]

\* typeByExtension(extension): the default branch throws
\* new Error(`Unknown extension ${extension}.`).
typeByExtension(extension) ==
  CASE extension = TXT -> [outcome |-> "returned", type |-> FT_TEXT]
    [] extension = JSON -> [outcome |-> "returned", type |-> FT_JSON]
    [] extension = LOG -> [outcome |-> "returned", type |-> FT_LOG]
    [] OTHER -> [outcome |-> "raised", type |-> FT_OTHER]

\* The extension appended whether the name ends with it or not.
withExtension_always(file, ext) == file \o ext

\* file.endsWith(ext) ? file : file + ext
withExtension(file, ext) == IF EndsWith(file, ext) THEN file ELSE file \o ext

\* getAbsolutePath(relFilePath, configDir)
getAbsolutePath(relFilePath, configDir) ==
  joinPath(IF configDir THEN basepath ELSE scriptableDir, relFilePath)

\* needsDownload without the isFileDownloaded test.
needsDownload_storedOnly(files, p) == fm_isFileStoredIniCloud(files, p)

\* isFileStoredIniCloud(path) && !isFileDownloaded(path), and the backend calls
\* this makes (&& does not evaluate its right side when the left is false).
needsDownload(files, p) ==
  fm_isFileStoredIniCloud(files, p) /\ ~fm_isFileDownloaded(files, p)

\* The cloud check with both sides of the && always evaluated.
cloudCheckTrace_both(files, p) ==
  <<Ev("isFileStoredIniCloud", p), Ev("isFileDownloaded", p)>>

cloudCheckTrace(files, p) ==
  IF fm_isFileStoredIniCloud(files, p)
  THEN <<Ev("isFileStoredIniCloud", p), Ev("isFileDownloaded", p)>>
  ELSE <<Ev("isFileStoredIniCloud", p)>>

\* notADictionary without the Array.isArray test.
notADictionary_noArray(dict) == TypeOf(dict) # "object" \/ dict = Null

\* typeof dict !== "object" || Array.isArray(dict) || dict === null
notADictionary(dict) == TypeOf(dict) # "object" \/ IsArray(dict) \/ dict = Null

\* A catch block that throws the exception on.
catchBlock_rethrows == [outcome |-> "raised", result |-> NoResponse]

\* catch (e) { console.error(e); return DataResponse.error(); }
catchBlock == [outcome |-> "returned", result |-> error(Undefined)]

\* The branch on type with a parsed null taken for a failure.
parsed_nullIsError(type, resStr) ==
  IF type \in {FT_JSON, FT_JSON_DICT}
  THEN IF notADictionary(JSONparse(resStr)) /\ JSONparse(resStr) = Null
       THEN error(Undefined)
       ELSE DataResponse(JSONparse(resStr), OK, Undefined)
  ELSE DataResponse(Str(resStr), OK, Undefined)

\* The branch on type that follows readString: the parse throws, ...
parseThrows(type, resStr) ==
  type \in {FT_JSON, FT_JSON_DICT} /\ JSONparseThrows(resStr)

\* ... or the branch returns a response.
parsed(type, resStr) ==
  IF type = FT_JSON THEN DataResponse(JSONparse(resStr), OK, Undefined)
  ELSE IF type = FT_JSON_DICT
  THEN IF notADictionary(JSONparse(resStr)) THEN error(Undefined)
       ELSE DataResponse(JSONparse(resStr), OK, Undefined)
  ELSE DataResponse(Str(resStr), OK, Undefined)

\* CustomFileManager.read from the existence check on.
readTail(files, p, type) ==
  IF ~fm_fileExists(files, p)
  THEN [outcome |-> "returned", result |-> notFound(Undefined), text |-> NoText,
        threw |-> "none", trace |-> <<Ev("fileExists", p)>>]
  ELSE LET tr == <<Ev("fileExists", p), Ev("readString", p)>>
           resStr == fm_readString(files, p)
       IN IF fm_readThrows(files, p)
          THEN [outcome |-> catchBlock.outcome, result |-> catchBlock.result,
                text |-> NoText, threw |-> "read", trace |-> tr]
          ELSE IF parseThrows(type, resStr)
          THEN [outcome |-> catchBlock.outcome, result |-> catchBlock.result,
                text |-> resStr, threw |-> "parse", trace |-> tr]
          ELSE [outcome |-> "returned", result |-> parsed(type, resStr),
                text |-> resStr, threw |-> "none", trace |-> tr]

\* CustomFileManager.read(file, type, configDir) up to its first suspension or
\* its return.
read(file, type, configDir) ==
  /\ call.pc = "idle"
  /\ LET ext == extensionByType(type, FALSE)
         p == getAbsolutePath(withExtension(file, ext), configDir)
         c == [Idle EXCEPT !.cls = "C", !.op = "read", !.file = file, !.kind = type,
                           !.configDir = configDir, !.path = p,
                           !.seen = Seen(fs, p), !.trace = cloudCheckTrace(fs, p)]
     IN IF needsDownload(fs, p)
        THEN /\ call' = [c EXCEPT !.pc = "await",
                                  !.trace = c.trace \o <<Ev("downloadFileFromiCloud", p)>>]
             /\ dl' = "pending"
        ELSE /\ call' = Finish(c, readTail(fs, p, type))
             /\ dl' = "none"
  /\ UNCHANGED <<fm, ctor, dirs, fs, lastWrite>>

\* The continuation that only a resolved download runs.
readResume_resolvedOnly ==
  /\ call.pc = "await" /\ call.cls = "C"
  /\ dl = "resolved"
  /\ call' = Finish(call, readTail(fs, call.path, call.kind))
  /\ UNCHANGED <<fm, ctor, dirs, fs, dl, lastWrite>>

\* CustomFileManager.read after await this.fm.downloadFileFromiCloud(path): a
\* rejected download is thrown out of the async function.
readResume ==
  /\ call.pc = "await" /\ call.cls = "C"
  /\ dl \in {"resolved", "rejected"}
  /\ call' = IF dl = "rejected"
             THEN [call EXCEPT !.pc = "done", !.outcome = "raised", !.threw = "download"]
             ELSE Finish(call, readTail(fs, call.path, call.kind))
  /\ UNCHANGED <<fm, ctor, dirs, fs, dl, lastWrite>>

\* The record of the last CustomFileManager.write to a path that nothing has
\* written or removed since.
NoWrite ==
  [valid |-> FALSE, path |-> EMPTY, file |-> EMPTY, configDir |-> TRUE,
   data |-> Undefined, kind |-> FT_OTHER]

\* What a write or a remove at path p leaves of that record.
Touched(p) == IF lastWrite.valid /\ lastWrite.path = p THEN NoWrite ELSE lastWrite

\* The backend has room for a file at p.
Room(p) == HasFile(fs, p) \/ Cardinality(fs) < MaxFiles

\* dataStr chosen by the declared type alone.
dataStr_byKindOnly(data, type) ==
  IF type = FT_JSON \/ type = FT_JSON_DICT
  THEN JSONstringify(data)
  ELSE data.v

\* CustomFileManager.write(data, file, type, configDir): the text written.
dataStr(data, type) ==
  IF type = FT_JSON \/ type = FT_JSON_DICT \/ TypeOf(data) = "object"
  THEN JSONstringify(data)
  ELSE data.v

\* A write operation that swallows the exception of the backend.
writeOutcome_swallowed(failed) == "returned"

\* The write operations call the backend outside any try: its exception is
\* theirs.
writeOutcome(failed) == IF failed THEN "raised" ELSE "returned"

\* The backend's write primitive: it throws and writes nothing (disk full,
\* permission denied), or writes.
backendWrite(files, p, content, failed) ==
  IF failed THEN files ELSE fm_writeString(files, p, content)

\* CustomFileManager.write(data, file, type, configDir)
write(data, file, type, configDir) ==
  /\ call.pc = "idle"
  /\ \E failed \in BOOLEAN :
       LET ext == extensionByType(type, FALSE)
           p == getAbsolutePath(withExtension(file, ext), configDir)
       IN /\ Room(p)
          /\ fs' = backendWrite(fs, p, dataStr(data, type), failed)
          /\ call' = [Idle EXCEPT !.cls = "C", !.op = "write", !.file = file,
                                  !.kind = type, !.configDir = configDir, !.data = data,
                                  !.path = p, !.seen = Seen(fs, p), !.pc = "done",
                                  !.outcome = writeOutcome(failed),
                                  !.threw = IF failed THEN "write" ELSE "none",
                                  !.text = dataStr(data, type),
                                  !.trace = <<Ev("writeString", p)>>]
          /\ lastWrite' = IF failed THEN lastWrite
                          ELSE [valid |-> TRUE, path |-> p, file |-> file,
                                configDir |-> configDir, data |-> data, kind |-> type]
  /\ dl' = "none"
  /\ UNCHANGED <<fm, ctor, dirs>>

\* CustomFileManager.remove(filePath, baseDir); what the backend does with a path
\* that does not exist is not this code's: it returns or raises.
remove(filePath, baseDir) ==
  /\ call.pc = "idle"
  /\ LET p == getAbsolutePath(filePath, baseDir)
     IN /\ fs' = fm_remove(fs, p)
        /\ \E o \in IF HasFile(fs, p) THEN {"returned"} ELSE {"returned", "raised"} :
             call' = [Idle EXCEPT !.cls = "C", !.op = "remove", !.file = filePath,
                                  !.configDir = baseDir, !.path = p,
                                  !.seen = Seen(fs, p), !.pc = "done", !.outcome = o,
                                  !.trace = <<Ev("remove", p)>>]
        /\ lastWrite' = Touched(p)
  /\ dl' = "none"
  /\ UNCHANGED <<fm, ctor, dirs>>

\* ------------------------------------------------------------ NewFileManager

\* mapPath(filePath)
mapPath(filePath) == joinPath(basepath, filePath)

\* autoExtension && !filePath.endsWith(".json") ? filePath + ".json" : filePath
autoExtensionPath(filePath, autoExtension) ==
  IF autoExtension /\ ~EndsWith(filePath, DOT \o JSON)
  THEN filePath \o (DOT \o JSON)
  ELSE filePath

\* readJSONDict: typeof data !== "object" || Array.isArray(data) || data === null
dataNotADictionary(data) == TypeOf(data) # "object" \/ IsArray(data) \/ data = Null

SafeReads == {"readS", "readStringS", "readJSONS", "readJSONDictS", "readImageS"}

\* The backend primitive the fn of a safe read calls.
rawPrimitive(op) ==
  CASE op = "readS" -> "read"
    [] op = "readImageS" -> "readImage"
    [] OTHER -> "readString"

\* fn(filePath) throws: the raw read does, or JSON.parse in readJSON.
fnThrows(files, p, op) ==
  \/ fm_readThrows(files, p)
  \/ op \in {"readJSONS", "readJSONDictS"} /\ JSONparseThrows(fm_readString(files, p))

\* fn(filePath), where it does not throw: read, readString, readJSON(path, false),
\* readJSONDict(path, false), readImage.
fnValue(files, p, op) ==
  LET text == fm_readString(files, p)
  IN CASE op = "readS" -> DataOf(text)
       [] op = "readImageS" -> ImageOf(text)
       [] op = "readStringS" -> Str(text)
       [] op = "readJSONS" -> JSONparse(text)
       [] OTHER -> IF dataNotADictionary(JSONparse(text)) THEN Null ELSE JSONparse(text)

\* readSmartWrapper's last line: return DataResponse.ok<T>(fn(filePath)).  fn's
\* exception is not caught: the promise the async function returned rejects.
wrapperTail(files, p, op) ==
  LET tr == <<Ev(rawPrimitive(op), p)>>
      readFailed == fm_readThrows(files, p)
  IN IF fnThrows(files, p, op)
     THEN [outcome |-> "raised", result |-> NoResponse,
           text |-> IF readFailed THEN NoText ELSE fm_readString(files, p),
           threw |-> IF readFailed THEN "read" ELSE "parse", trace |-> tr]
     ELSE [outcome |-> "returned", result |-> ok(fnValue(files, p, op), Undefined),
           text |-> fm_readString(files, p), threw |-> "none", trace |-> tr]

\* readJSONDictS: res != null ? res : DataResponse.empty(), where res is the
\* promise readSmartWrapper returned, not what it resolves to.
promiseOrEmpty(res, t) ==
  IF ~IsNullish(res) THEN t
  ELSE [t EXCEPT !.outcome = "returned", !.result = empty(OK, Undefined)]

\* What a safe read's caller gets of readSmartWrapper's outcome.
safeReturn(op, t) == IF op = "readJSONDictS" THEN promiseOrEmpty(Promise, t) ELSE t

\* readS, readStringS, readJSONS, readJSONDictS, readImageS: readSmartWrapper up
\* to its first suspension or its return.
readSmartWrapper(op, filePath, autoExtension) ==
  /\ call.pc = "idle"
  /\ LET rel == IF op \in {"readJSONS", "readJSONDictS"}
                THEN autoExtensionPath(filePath, autoExtension) ELSE filePath
         p == mapPath(rel)
         c == [Idle EXCEPT !.cls = "N", !.op = op, !.file = filePath,
                           !.autoExt = autoExtension, !.path = p,
                           !.seen = Seen(fs, p), !.trace = <<Ev("fileExists", p)>>]
     IN IF ~fm_fileExists(fs, p)
        THEN /\ call' = [c EXCEPT !.pc = "done", !.outcome = "returned",
                                  !.result = notFound(Undefined)]
             /\ dl' = "none"
        ELSE IF needsDownload(fs, p)
        THEN /\ call' = [c EXCEPT !.pc = "await",
                                  !.trace = c.trace \o cloudCheckTrace(fs, p)
                                            \o <<Ev("downloadFileFromiCloud", p)>>]
             /\ dl' = "pending"
        ELSE /\ call' = Finish([c EXCEPT !.trace = c.trace \o cloudCheckTrace(fs, p)],
                               safeReturn(op, wrapperTail(fs, p, op)))
             /\ dl' = "none"
  /\ UNCHANGED <<fm, ctor, dirs, fs, lastWrite>>

\* readSmartWrapper after await this.downloadFileFromiCloud(filePath).
wrapperResume ==
  /\ call.pc = "await" /\ call.cls = "N"
  /\ dl \in {"resolved", "rejected"}
  /\ call' = IF dl = "rejected"
             THEN [call EXCEPT !.pc = "done", !.outcome = "raised", !.threw = "download"]
             ELSE Finish(call, safeReturn(call.op, wrapperTail(fs, call.path, call.op)))
  /\ UNCHANGED <<fm, ctor, dirs, fs, dl, lastWrite>>

\* NewFileManager.readJSON(filePath, autoExtension), the raw accessor.
readJSON(filePath, autoExtension) ==
  /\ call.pc = "idle"
  /\ LET p == mapPath(autoExtensionPath(filePath, autoExtension))
         t == wrapperTail(fs, p, "readJSONS")
         c == [Idle EXCEPT !.cls = "N", !.op = "readJSON", !.file = filePath,
                           !.autoExt = autoExtension, !.path = p, !.seen = Seen(fs, p)]
     IN call' = [Finish(c, t) EXCEPT !.result = NoResponse,
                                     !.ret = IF t.outcome = "returned"
                                             THEN t.result.data ELSE Undefined]
  /\ dl' = "none"
  /\ UNCHANGED <<fm, ctor, dirs, fs, lastWrite>>

\* writeJSON: filePath.endsWith(ext) ? filePath : filePath + ext, ext = ".json"
writeJSONPath(filePath) ==
  LET ext == DOT \o JSON
  IN IF EndsWith(filePath, ext) THEN filePath ELSE filePath \o ext

\* A write of NewFileManager: one call of the backend primitive with the
\* mapped path.
Wrote(op, primitive, filePath, p, content, text, failed) ==
  [Idle EXCEPT !.cls = "N", !.op = op, !.file = filePath, !.data = content,
               !.path = p, !.seen = Seen(fs, p), !.pc = "done",
               !.outcome = writeOutcome(failed),
               !.threw = IF failed THEN "write" ELSE "none",
               !.text = text, !.trace = <<Ev(primitive, p)>>]

\* NewFileManager.write(filePath, content), content a Data.
writeData(filePath, content) ==
  /\ call.pc = "idle"
  /\ \E failed \in BOOLEAN :
       LET p == mapPath(filePath)
       IN /\ Room(p)
          /\ fs' = backendWrite(fs, p, content.v, failed)
          /\ call' = Wrote("write", "write", filePath, p, content, content.v, failed)
          /\ lastWrite' = IF failed THEN lastWrite ELSE Touched(p)
  /\ dl' = "none"
  /\ UNCHANGED <<fm, ctor, dirs>>

\* NewFileManager.writeString(filePath, content)
writeString(filePath, content) ==
  /\ call.pc = "idle"
  /\ \E failed \in BOOLEAN :
       LET p == mapPath(filePath)
       IN /\ Room(p)
          /\ fs' = backendWrite(fs, p, content, failed)
          /\ call' = Wrote("writeString", "writeString", filePath, p, Str(content),
                           content, failed)
          /\ lastWrite' = IF failed THEN lastWrite ELSE Touched(p)
  /\ dl' = "none"
  /\ UNCHANGED <<fm, ctor, dirs>>

\* NewFileManager.writeJSON(filePath, content), through writeString.
writeJSON(filePath, content) ==
  /\ call.pc = "idle"
  /\ \E failed \in BOOLEAN :
       LET p == mapPath(writeJSONPath(filePath))
       IN /\ Room(p)
          /\ fs' = backendWrite(fs, p, JSONstringify(content), failed)
          /\ call' = Wrote("writeJSON", "writeString", filePath, p, content,
                           JSONstringify(content), failed)
          /\ lastWrite' = IF failed THEN lastWrite ELSE Touched(p)
  /\ dl' = "none"
  /\ UNCHANGED <<fm, ctor, dirs>>

\* ------------------------------------------------------------ delegations

\* Methods of NewFileManager that are return this.fm.X(this.mapPath(filePath)).
PathDelegations == {"fileExists", "isFileStoredIniCloud", "isFileDownloaded"}

\* What the backend answers to each of them.
backendValue(method, files, p) ==
  CASE method = "fileExists" -> Bool(fm_fileExists(files, p))
    [] method = "isFileStoredIniCloud" -> Bool(fm_isFileStoredIniCloud(files, p))
    [] method = "isFileDownloaded" -> Bool(fm_isFileDownloaded(files, p))

\* fileExists(filePath), isFileStoredIniCloud(filePath), isFileDownloaded(filePath)
delegation(method, filePath) ==
  /\ call.pc = "idle"
  /\ LET p == mapPath(filePath)
     IN call' = [Idle EXCEPT !.cls = "N", !.op = method, !.file = filePath,
                             !.path = p, !.seen = Seen(fs, p), !.pc = "done",
                             !.depth = 1, !.outcome = "returned",
                             !.ret = backendValue(method, fs, p),
                             !.trace = <<Ev(method, p)>>]
  /\ dl' = "none"
  /\ UNCHANGED <<fm, ctor, dirs, fs, lastWrite>>

\* libraryDirectory(): return this.libraryDirectory(); the first frame.
libraryDirectory ==
  /\ call.pc = "idle"
  /\ call' = [Idle EXCEPT !.cls = "N", !.op = "libraryDirectory", !.pc = "frame",
                          !.depth = 1]
  /\ dl' = "none"
  /\ UNCHANGED <<fm, ctor, dirs, fs, lastWrite>>

\* fileName(filePath, includeFileExtension):
\* return this.fileName(this.mapPath(filePath), includeFileExtension); the first
\* frame, call.arg being the frame's filePath.
fileName(filePath, includeFileExtension) ==
  /\ call.pc = "idle"
  /\ call' = [Idle EXCEPT !.cls = "N", !.op = "fileName", !.file = filePath,
                          !.autoExt = includeFileExtension, !.arg = filePath,
                          !.pc = "frame", !.depth = 1]
  /\ dl' = "none"
  /\ UNCHANGED <<fm, ctor, dirs, fs, lastWrite>>

\* The argument a frame of the method hands to the next frame.
selfArgument(op, filePath) == IF op = "fileName" THEN mapPath(filePath) ELSE filePath

\* A frame of libraryDirectory or fileName calls the method again; frames from
\* MaxDepth on are counted as MaxDepth.
selfCall ==
  /\ call.pc = "frame"
  /\ call.depth < MaxDepth
  /\ call' = [call EXCEPT !.depth = @ + 1, !.arg = selfArgument(call.op, @)]
  /\ UNCHANGED <<fm, ctor, dirs, fs, dl, lastWrite>>

\* The engine ends the recursion with a RangeError when it runs out of stack; an
\* engine that makes the call in tail position without a new frame does not, and
\* the call goes on for ever.
stackExhausted ==
  /\ call.pc = "frame"
  /\ call.depth = MaxDepth
  /\ call' = [call EXCEPT !.pc = "done", !.outcome = "raised", !.threw = "RangeError"]
  /\ UNCHANGED <<fm, ctor, dirs, fs, dl, lastWrite>>

\* ------------------------------------------------------------ CustomData

\* get storageFileName: `${(this.fm?.filestub ?? "") + this.id}.json`; a
\* filestub is given or undefined.
storageFileName(filestub, id) ==
  (IF filestub.given THEN filestub.s ELSE EMPTY) \o id \o DOT \o JSON

\* save that calls write on every fm that is not undefined.
saveWrites_unlessUndefined(registered) == registered # "undefined"

\* save: if (this.fm === undefined) return; this.fm?.write(...): the write is
\* made when this.fm is neither undefined nor null.
saveWrites(registered) == registered \notin {"undefined", "null"}

\* CustomData.save(), the object having the id, the storage object and, when
\* one is registered, a CustomFileManager with the filestub.
save(registered, filestub, id, storageObject) ==
  /\ call.pc = "idle"
  /\ LET file == storageFileName(filestub, id)
         p == getAbsolutePath(withExtension(file, extensionByType(FT_JSON, FALSE)), TRUE)
         c == [Idle EXCEPT !.cls = "S", !.op = "save", !.form = registered,
                           !.arg = id, !.data = storageObject, !.pc = "done"]
     IN IF ~saveWrites(registered)
        THEN /\ call' = [c EXCEPT !.outcome = "returned"]
             /\ UNCHANGED <<fs, lastWrite>>
        ELSE \E failed \in BOOLEAN :
               /\ Room(p)
               /\ fs' = backendWrite(fs, p, dataStr(storageObject, FT_JSON), failed)
               /\ call' = [c EXCEPT !.file = file, !.kind = FT_JSON, !.path = p,
                                    !.seen = Seen(fs, p),
                                    !.outcome = writeOutcome(failed),
                                    !.threw = IF failed THEN "write" ELSE "none",
                                    !.text = dataStr(storageObject, FT_JSON),
                                    !.trace = <<Ev("writeString", p)>>]
               /\ lastWrite' = IF failed THEN lastWrite
                               ELSE [valid |-> TRUE, path |-> p, file |-> file,
                                     configDir |-> TRUE, data |-> storageObject,
                                     kind |-> FT_JSON]
  /\ dl' = "none"
  /\ UNCHANGED <<fm, ctor, dirs>>

\* ------------------------------------------------------------ static calls

\* A settled call whose outcome the caller passes on to the next call.
Settled(op) == call.pc = "done" /\ call.op = op /\ call.from = "-"

\* CustomFileManager.extensionByType(type, omitDot)
callExtensionByType(type, omitDot) ==
  /\ call.pc = "idle"
  /\ call' = [Idle EXCEPT !.cls = "C", !.op = "extensionByType", !.kind = type,
                          !.omitDot = omitDot, !.sret = extensionByType(type, omitDot),
                          !.pc = "done", !.outcome = "returned"]
  /\ UNCHANGED <<fm, ctor, dirs, fs, dl, lastWrite>>

\* CustomFileManager.typeByExtension(extension)
callTypeByExtension(extension) ==
  /\ call.pc = "idle"
  /\ LET r == typeByExtension(extension)
     IN call' = [Idle EXCEPT !.cls = "C", !.op = "typeByExtension", !.arg = extension,
                             !.pc = "done", !.outcome = r.outcome,
                             !.threw = IF r.outcome = "raised" THEN "unknown extension"
                                       ELSE "none",
                             !.ret = IF r.outcome = "raised" THEN Undefined
                                     ELSE [t |-> "FileType", v |-> r.type]]
  /\ UNCHANGED <<fm, ctor, dirs, fs, dl, lastWrite>>

\* typeByExtension(extensionByType(type, omitDot)): what extensionByType
\* returned is passed to typeByExtension.
typeOfExtension ==
  /\ Settled("extensionByType")
  /\ LET r == typeByExtension(call.sret)
     IN call' = [call EXCEPT !.op = "typeByExtension", !.from = "extensionByType",
                             !.arg = call.sret, !.outcome = r.outcome,
                             !.threw = IF r.outcome = "raised" THEN "unknown extension"
                                       ELSE "none",
                             !.ret = IF r.outcome = "raised" THEN Undefined
                                     ELSE [t |-> "FileType", v |-> r.type]]
  /\ UNCHANGED <<fm, ctor, dirs, fs, dl, lastWrite>>

\* extensionByType(typeByExtension(extension), true): the type typeByExtension
\* returned is passed to extensionByType.
extensionOfType ==
  /\ Settled("typeByExtension") /\ call.outcome = "returned"
  /\ call' = [call EXCEPT !.op = "extensionByType", !.from = "typeByExtension",
                          !.kind = call.ret.v, !.omitDot = TRUE,
                          !.sret = extensionByType(call.ret.v, TRUE)]
  /\ UNCHANGED <<fm, ctor, dirs, fs, dl, lastWrite>>

\* A DataResponse call that returns the response r.
Responded(op, r) ==
  [Idle EXCEPT !.cls = "D", !.op = op, !.pc = "done", !.outcome = "returned",
               !.result = r]

\* new DataResponse(data, status, msg)
newDataResponse(data, status, msg) ==
  /\ call.pc = "idle"
  /\ call' = [Responded("new", DataResponse(data, statusOrDefault(status), msg))
                EXCEPT !.data = data, !.status = status, !.msg = msg]
  /\ UNCHANGED <<fm, ctor, dirs, fs, dl, lastWrite>>

\* DataResponse.empty(status, msg)
callEmpty(status, msg) ==
  /\ call.pc = "idle"
  /\ call' = [Responded("empty", empty(statusOrDefault(status), msg))
                EXCEPT !.status = status, !.msg = msg, !.warns = emptyWarns(msg)]
  /\ UNCHANGED <<fm, ctor, dirs, fs, dl, lastWrite>>

\* DataResponse.notFound(msg)
callNotFound(msg) ==
  /\ call.pc = "idle"
  /\ call' = [Responded("notFound", notFound(msg))
                EXCEPT !.msg = msg, !.warns = emptyWarns(msg)]
  /\ UNCHANGED <<fm, ctor, dirs, fs, dl, lastWrite>>

\* DataResponse.error(msg)
callError(msg) ==
  /\ call.pc = "idle"
  /\ call' = [Responded("error", error(msg))
                EXCEPT !.msg = msg, !.warns = emptyWarns(msg)]
  /\ UNCHANGED <<fm, ctor, dirs, fs, dl, lastWrite>>

\* DataResponse.apiError(msg)
callApiError(msg) ==
  /\ call.pc = "idle"
  /\ call' = [Responded("apiError", apiError(msg))
                EXCEPT !.msg = msg, !.warns = emptyWarns(msg)]
  /\ UNCHANGED <<fm, ctor, dirs, fs, dl, lastWrite>>

\* DataResponse.ok(data, msg)
callOk(data, msg) ==
  /\ call.pc = "idle"
  /\ call' = [Responded("ok", ok(data, msg)) EXCEPT !.data = data, !.msg = msg]
  /\ UNCHANGED <<fm, ctor, dirs, fs, dl, lastWrite>>

\* DataResponse.cached(data) of a value that is no DataResponse.
callCached(data) ==
  /\ call.pc = "idle"
  /\ call' = [Responded("cached", cached(data)) EXCEPT !.data = data]
  /\ UNCHANGED <<fm, ctor, dirs, fs, dl, lastWrite>>

\* The operations that return a DataResponse built from their arguments.
Generators == {"new", "empty", "notFound", "error", "apiError", "ok", "cached"}

\* A settled generator, whose response the caller passes on.
HasResponse == call.pc = "done" /\ call.op \in Generators /\ call.from = "-"

\* DataResponse.cached(resp) of the response the last call returned.
cachedOfResponse ==
  /\ HasResponse
  /\ call' = [call EXCEPT !.op = "cached", !.from = call.op, !.resp = call.result,
                          !.result = cached(call.result), !.warns = 0]
  /\ UNCHANGED <<fm, ctor, dirs, fs, dl, lastWrite>>

\* DataResponse.fromDataResponse(resp, status) of the response the last call
\* returned.
callFromDataResponse(status) ==
  /\ HasResponse
  /\ call' = [call EXCEPT !.op = "fromDataResponse", !.from = call.op,
                          !.resp = call.result, !.status = status,
                          !.result = fromDataResponse(call.result, status),
                          !.warns = 0]
  /\ UNCHANGED <<fm, ctor, dirs, fs, dl, lastWrite>>

\* resp.isEmpty() and DataResponse.isEmpty(resp) of the response the last call
\* returned.
callIsEmpty(form) ==
  /\ HasResponse
  /\ call' = [call EXCEPT !.op = "isEmpty", !.from = call.op, !.form = form,
                          !.resp = call.result, !.result = NoResponse,
                          !.ret = Bool(IF form = "instance" THEN thisIsEmpty(call.result)
                                       ELSE isEmpty(call.result)),
                          !.warns = 0]
  /\ UNCHANGED <<fm, ctor, dirs, fs, dl, lastWrite>>

\* resp.succeeded() and DataResponse.isSuccess(resp.status) of the response the
\* last call returned.
callSucceeded(form) ==
  /\ HasResponse
  /\ call' = [call EXCEPT !.op = "succeeded", !.from = call.op, !.form = form,
                          !.resp = call.result, !.result = NoResponse,
                          !.ret = Bool(IF form = "instance" THEN succeeded(call.result)
                                       ELSE isSuccess(call.result.status)),
                          !.warns = 0]
  /\ UNCHANGED <<fm, ctor, dirs, fs, dl, lastWrite>>

\* The caller of a settled operation takes its outcome, in the turn that settled
\* it, and is free to call again.
callerContinues ==
  /\ call.pc = "done"
  /\ call' = Idle
  /\ dl' = "none"
  /\ UNCHANGED <<fm, ctor, dirs, fs, lastWrite>>

\* ------------------------------------------------------------ environment

\* The file names, payloads and paths of the model.
FileNames == {<<"x">>, <<"x">> \o DOT \o JSON}
Payloads == {ObjA1, ObjANaN, StrHi}
OtherTexts == {TObjA1, TArr, TNull, TPlain}
Filestubs == {[given |-> FALSE, s |-> EMPTY], [given |-> TRUE, s |-> <<"x">>]}
Ids == {<<"x">>}
Paths ==
  {getAbsolutePath(withExtension(f, extensionByType(k, FALSE)), c) :
     f \in FileNames, k \in FileType, c \in BOOLEAN}
  \cup {mapPath(autoExtensionPath(f, TRUE)) : f \in FileNames}
  \cup {getAbsolutePath(storageFileName(s, i), TRUE) : s \in Filestubs, i \in Ids}

\* The cloud states the backend chosen at construction can show.
CloudOf(backend) == IF backend = "iCloud" THEN {"downloaded", "remote"} ELSE {"local"}

Files(backend) == [path : Paths, text : OtherTexts, cloud : CloudOf(backend)]

\* The promise of fm.downloadFileFromiCloud(path) resolves: the file, if it is
\* still there, is on the device.
downloadResolves ==
  /\ dl = "pending"
  /\ dl' = "resolved"
  /\ fs' = {IF f.path = call.path THEN [f EXCEPT !.cloud = "downloaded"] ELSE f : f \in fs}
  /\ UNCHANGED <<fm, ctor, dirs, call, lastWrite>>

\* The promise of fm.downloadFileFromiCloud(path) rejects.
downloadRejects ==
  /\ dl = "pending"
  /\ dl' = "rejected"
  /\ UNCHANGED <<fm, ctor, dirs, fs, call, lastWrite>>

\* Another accessor on the same root, or the cloud, writes a file.
otherWrites(f) ==
  /\ call.pc \in {"idle", "await"}
  /\ Room(f.path)
  /\ fs' = {g \in fs : g.path # f.path} \cup {f}
  /\ lastWrite' = Touched(f.path)
  /\ UNCHANGED <<fm, ctor, dirs, dl, call>>

\* Another accessor on the same root removes a file.
otherRemoves(p) ==
  /\ call.pc \in {"idle", "await"}
  /\ HasFile(fs, p)
  /\ fs' = fm_remove(fs, p)
  /\ lastWrite' = Touched(p)
  /\ UNCHANGED <<fm, ctor, dirs, dl, call>>

\* ------------------------------------------------------------ specification

Init ==
  /\ ctor \in Devices
  /\ fm = constructor(ctor.iCloudThrows, ctor.documentsDirectoryThrows)
  /\ dirs = {documentsDirectory, basepath}
  /\ fs = {}
  /\ dl = "none"
  /\ call = Idle
  /\ lastWrite = NoWrite

Next ==
  \/ \E f \in FileNames, k \in FileType, c \in BOOLEAN : read(f, k, c)
  \/ readResume
  \/ \E d \in Payloads, f \in FileNames, k \in FileType, c \in BOOLEAN : write(d, f, k, c)
  \/ \E f \in FileNames, c \in BOOLEAN : remove(f, c)
  \/ \E op \in SafeReads, f \in FileNames, a \in BOOLEAN :
       (a \/ op \in {"readJSONS", "readJSONDictS"}) /\ readSmartWrapper(op, f, a)
  \/ wrapperResume
  \/ \E f \in FileNames, a \in BOOLEAN : readJSON(f, a)
  \/ \E f \in FileNames, d \in Payloads : writeJSON(f, d)
  \/ \E f \in FileNames : writeData(f, DataOf(TPlain))
  \/ \E r \in {"undefined", "null", "fm"}, s \in Filestubs, i \in Ids : save(r, s, i, ObjA1)
  \/ \E f \in FileNames, t \in {TPlain, TObjA1} : writeString(f, t)
  \/ \E m \in PathDelegations, f \in FileNames : delegation(m, f)
  \/ libraryDirectory
  \/ \E f \in FileNames, i \in BOOLEAN : fileName(f, i)
  \/ selfCall
  \/ stackExhausted
  \/ callerContinues
  \/ downloadResolves
  \/ downloadRejects
  \/ \E f \in Files(fm) : otherWrites(f)
  \/ \E p \in Paths : otherRemoves(p)

Spec == Init /\ [][Next]_vars

\* The base directory names given to the constructors, and what a constructor
\* can find: the documents directory, each root there as a directory or not,
\* and at most MaxFiles files where a root would be.
BaseDirs == {<<"b">>, <<"c">>}
BasedirArgs ==
  {[given |-> FALSE, s |-> EMPTY], [given |-> TRUE, s |-> EMPTY]}
    \cup {[given |-> TRUE, s |-> b] : b \in BaseDirs}
Roots == {joinPath(documentsDirectory, b) : b \in BaseDirs}
RootFiles == {[path |-> p, text |-> TPlain, cloud |-> "local"] : p \in Roots}

ConstructInit ==
  /\ ctor \in Devices
  /\ fm = "-"
  /\ dirs \in {{documentsDirectory} \cup r : r \in SUBSET Roots}
  /\ fs \in {f \in SUBSET RootFiles :
              /\ Cardinality(f) <= MaxFiles
              /\ \A g \in f : g.path \notin dirs}
  /\ dl = "none"
  /\ call = Idle
  /\ lastWrite = NoWrite

ConstructNext ==
  \/ \E b \in BaseDirs : CustomFileManager(b)
  \/ \E b \in BasedirArgs : NewFileManager(b)
  \/ callerContinues

ConstructSpec == ConstructInit /\ [][ConstructNext]_vars

\* The continuation of an await runs once its promise has settled; nothing makes
\* the backend settle a download.
LiveSpec == Spec /\ WF_vars(readResume) /\ WF_vars(wrapperResume)

\* The arguments of the static calls: payloads (falsy ones among them),
\* messages, status arguments and extension strings.
DataValues == {Null, Undefined, Str(""), StrHi, ObjA1, Num0}
Messages == {Undefined, Str(""), Str("m")}
StatusArgs == DataStatus \cup {Omitted}
Extensions ==
  {extensionByType(k, o) : k \in FileType, o \in BOOLEAN}
  \cup {<<"j", "s", "o", "n", "_", "d", "i", "c", "t">>, <<"T", "X", "T">>, <<"x">>}

\* The static functions of CustomFileManager and DataResponse: they read and
\* write nothing but their arguments.
StaticNext ==
  \/ \E k \in FileType, o \in BOOLEAN : callExtensionByType(k, o)
  \/ \E e \in Extensions : callTypeByExtension(e)
  \/ typeOfExtension
  \/ extensionOfType
  \/ \E d \in DataValues, s \in StatusArgs, m \in Messages : newDataResponse(d, s, m)
  \/ \E s \in StatusArgs, m \in Messages : callEmpty(s, m)
  \/ \E m \in Messages : callNotFound(m)
  \/ \E m \in Messages : callError(m)
  \/ \E m \in Messages : callApiError(m)
  \/ \E d \in DataValues, m \in Messages : callOk(d, m)
  \/ \E d \in DataValues : callCached(d)
  \/ cachedOfResponse
  \/ \E s \in DataStatus : callFromDataResponse(s)
  \/ \E f \in {"instance", "static"} : callIsEmpty(f)
  \/ \E f \in {"instance", "static"} : callSucceeded(f)
  \/ callerContinues

StaticSpec == Init /\ [][StaticNext]_vars

\* ------------------------------------------------------------------ claims

Done == call.pc = "done"

\* The call is a CustomFileManager.read / a NewFileManager safe read.
CustomRead == call.cls = "C" /\ call.op = "read"
SafeRead == call.cls = "N" /\ call.op \in SafeReads

Returned == call.outcome = "returned"

\* The number of calls of a backend primitive the operation has made.
Calls(name) == Cardinality({i \in DOMAIN call.trace : call.trace[i].f = name})

RawReads == {"read", "readString", "readImage"}
RawReadCalls == Cardinality({i \in DOMAIN call.trace : call.trace[i].f \in RawReads})

\* C1: when the raw read or the JSON parse of a NewFileManager safe read on an
\* existing path throws, the call resolves to status ERROR with absent payload
\* and nothing is raised.  (The code has no try around fn: the promise rejects.)
C1_ReadStepThrowCaught ==
  (SafeRead /\ Done /\ call.seen # "absent" /\ call.threw \in {"read", "parse"})
    => (Returned /\ call.result.status = ERROR /\ isEmpty(call.result))

\* C2: readJSONDictS on an existing file whose content parses to an array, a
\* scalar or null returns status ERROR and not the parsed value.  (The code
\* returns ok(null): status OK.)
NonDictValue(x) == x.t \in {"array", "string", "number", "null"}

C2_DictShapeIsError ==
  (SafeRead /\ Done /\ call.op = "readJSONDictS" /\ call.text # NoText
     /\ ~JSONparseThrows(call.text) /\ NonDictValue(JSONparse(call.text)))
    => (Returned /\ call.result.status = ERROR /\ isEmpty(call.result))

\* C3: a read (CustomFileManager.read of any kind, any NewFileManager safe read)
\* of a path that does not exist returns NOT_FOUND with absent payload and makes
\* no raw read.
C3_MissingIsNotFound ==
  ((CustomRead \/ SafeRead) /\ call.pc # "idle" /\ call.seen = "absent")
    => /\ Done /\ Returned
       /\ call.result.status = NOT_FOUND
       /\ isEmpty(call.result)
       /\ RawReadCalls = 0

C3_Witness ==
  /\ CustomRead /\ Done /\ call.seen = "absent" /\ call.kind = FT_JSON_DICT
  /\ call.result.status = NOT_FOUND

\* C4: a rejected download is absorbed: the safe read still resolves to status
\* ERROR or NOT_FOUND and nothing is raised.  (The await is outside any try.)
C4_DownloadFailureAbsorbed ==
  ((CustomRead \/ SafeRead) /\ Done /\ dl = "rejected")
    => (Returned /\ call.result.status \in {ERROR, NOT_FOUND})

\* C5 (as claimed): a safe read suspended in the download always completes, also
\* when the backend never settles the download.
C5_SuspendedReadCompletes == (call.pc = "await") ~> (call.pc = "done")

\* C5 (amended): a suspended safe read completes once the backend has settled
\* the download, resolved or rejected; there is no timeout before that.
C5_CompletesOnceSettled ==
  (call.pc = "await" /\ dl \in {"resolved", "rejected"}) ~> (call.pc = "done")

C5_Witness ==
  /\ (CustomRead \/ SafeRead) /\ Done /\ call.seen = "remote"
  /\ Calls("downloadFileFromiCloud") = 1 /\ dl = "resolved"

\* C6: a safe read of a file that exists in iCloud and is not downloaded calls
\* the download exactly once, and the raw read is called only after that
\* download has resolved; a read of any other file never calls the download.
C6_DownloadOnceBeforeRead ==
  ((CustomRead \/ SafeRead) /\ call.pc # "idle")
    => /\ call.seen = "remote" => Calls("downloadFileFromiCloud") = 1
       /\ call.seen # "remote" => Calls("downloadFileFromiCloud") = 0
       /\ \A i \in DOMAIN call.trace :
            (call.trace[i].f \in RawReads /\ call.seen = "remote")
              => /\ dl = "resolved"
                 /\ \E j \in 1..(i - 1) : call.trace[j].f = "downloadFileFromiCloud"

C6_Witness ==
  /\ SafeRead /\ Done /\ call.seen = "remote" /\ Returned
  /\ RawReadCalls = 1 /\ Calls("downloadFileFromiCloud") = 1

\* The text of the file the settled call addressed, as its read step found it.
FileText == FileAt(fs, call.path).text

\* The read step of CustomFileManager.read ran and readString returned.
ReadStringReturned ==
  Calls("readString") = 1 /\ ~fm_readThrows(fs, call.path)

\* C7: CustomFileManager.read with kind JSON_DICT of text that parses to an
\* array, a scalar or null returns ERROR with absent payload; with kind JSON it
\* returns OK with the parsed value.
C7_DictShapeEnforced ==
  (CustomRead /\ Done /\ ReadStringReturned /\ ~JSONparseThrows(FileText)
     /\ NonDictValue(JSONparse(FileText)))
    => /\ Returned
       /\ call.kind = FT_JSON_DICT
            => (call.result.status = ERROR /\ isEmpty(call.result))
       /\ call.kind = FT_JSON
            => (call.result.status = OK /\ call.result.data = JSONparse(FileText))

C7_Witness ==
  /\ CustomRead /\ Done /\ ReadStringReturned /\ call.kind = FT_JSON_DICT
  /\ FileText = TArr /\ call.result.status = ERROR

\* C8: once CustomFileManager.read has reached readString it never raises: with
\* kind JSON or JSON_DICT a throwing readString or text that is not JSON gives
\* ERROR with absent payload; with kind TEXT, LOG or OTHER the text read is
\* returned as it is, with status OK.
C8_ReadStepNeverRaises ==
  (CustomRead /\ Done /\ Calls("readString") = 1)
    => /\ Returned
       /\ (call.kind \in {FT_JSON, FT_JSON_DICT}
             /\ (fm_readThrows(fs, call.path) \/ JSONparseThrows(FileText)))
            => (call.result.status = ERROR /\ isEmpty(call.result))
       /\ (call.kind \in {FT_TEXT, FT_LOG, FT_OTHER} /\ ~fm_readThrows(fs, call.path))
            => call.result = [data |-> Str(FileText), status |-> OK, msg |-> Undefined]

C8_Witness ==
  /\ CustomRead /\ Done /\ ReadStringReturned /\ call.kind = FT_JSON
  /\ FileText = TPlain /\ call.result.status = ERROR

\* The other way into the catch block: readString itself throws, the file
\* having gone away or been evicted between the existence check and the read.
C8_WitnessReadThrows ==
  /\ CustomRead /\ Done /\ Calls("readString") = 1 /\ fm_readThrows(fs, call.path)
  /\ call.result.status = ERROR

\* The last CustomFileManager.write wrote an object with kind JSON to the file
\* stub that the settled CustomFileManager.read with kind JSON_DICT was given,
\* and nothing has written or removed the file written since.
RoundTrip ==
  /\ CustomRead /\ Done /\ call.kind = FT_JSON_DICT
  /\ lastWrite.valid /\ lastWrite.kind = FT_JSON /\ lastWrite.data.t = "dict"
  /\ lastWrite.file = call.file /\ lastWrite.configDir = call.configDir

\* C9 (as claimed): the read returns OK with a payload equal to the object
\* written, whatever the object.
C9_RoundTripAnyObject ==
  RoundTrip
    => (Returned /\ call.result.status = OK /\ call.result.data = lastWrite.data)

\* An object JSON text represents: no member is NaN (nor undefined, a function
\* or another value JSON.stringify drops or rewrites).
JSONRepresentable(x) == x \in {ObjA1, ObjANull}

\* C9 (amended): the read returns OK with a payload equal to the object written
\* when JSON represents that object.
C9_RoundTripJSONObject ==
  (RoundTrip /\ JSONRepresentable(lastWrite.data))
    => (Returned /\ call.result.status = OK /\ call.result.data = lastWrite.data)

C9_Witness ==
  /\ RoundTrip /\ lastWrite.data = ObjA1 /\ call.file = <<"x">>
  /\ call.result.status = OK /\ call.result.data = ObjA1

\* File names for the extension rules: with every extension, with none, empty.
ExtNames ==
  FileNames \cup {<<"x">> \o extensionByType(k, FALSE) : k \in FileType}
            \cup {EMPTY, DOT \o JSON, <<"x">> \o JSON}

\* JSON for JSON_DICT and JSON_DICT for JSON.
Twin(k) == IF k = FT_JSON THEN FT_JSON_DICT ELSE IF k = FT_JSON_DICT THEN FT_JSON ELSE k

\* C10: resolving the extension is idempotent for every kind: a name that ends
\* with the kind's extension is left as it is, so "x" and "x" + ext reach the
\* same backend path, as do JSON and JSON_DICT; the same for the ".json" of
\* readJSON, readJSONS, readJSONDictS and writeJSON.
C10_ExtensionIdempotent ==
  /\ \A f \in ExtNames, k \in FileType :
       LET e == extensionByType(k, FALSE)
       IN /\ withExtension(withExtension(f, e), e) = withExtension(f, e)
          /\ EndsWith(f, e) => withExtension(f, e) = f
          /\ ~EndsWith(f, e) => withExtension(f \o e, e) = withExtension(f, e)
          /\ withExtension(f, extensionByType(Twin(k), FALSE)) = withExtension(f, e)
  /\ \A f \in ExtNames :
       /\ autoExtensionPath(autoExtensionPath(f, TRUE), TRUE) = autoExtensionPath(f, TRUE)
       /\ writeJSONPath(writeJSONPath(f)) = writeJSONPath(f)
       /\ writeJSONPath(f) = autoExtensionPath(f, TRUE)
  /\ (call.cls = "C" /\ call.op \in {"read", "write"})
       => LET e == extensionByType(call.kind, FALSE)
              again == withExtension(withExtension(call.file, e), e)
          IN /\ call.path = getAbsolutePath(again, call.configDir)
             /\ EndsWith(call.file, e)
                  => call.path = getAbsolutePath(call.file, call.configDir)
             /\ EndsWith(call.path, e)
             /\ (call.op = "write" /\ call.threw = "none") => HasFile(fs, call.path)
  /\ (call.cls = "N" /\ (call.op = "writeJSON"
                         \/ (call.op \in {"readJSON", "readJSONS", "readJSONDictS"}
                             /\ call.autoExt)))
       => /\ call.path = mapPath(autoExtensionPath(autoExtensionPath(call.file, TRUE), TRUE))
          /\ EndsWith(call.file, DOT \o JSON) => call.path = mapPath(call.file)
          /\ EndsWith(call.path, DOT \o JSON)

C10_Witness ==
  /\ call.cls = "C" /\ call.op = "write" /\ Done /\ call.kind = FT_JSON
  /\ call.file = <<"x">> \o DOT \o JSON
  /\ call.path = getAbsolutePath(<<"x">> \o DOT \o JSON, call.configDir)
  /\ HasFile(fs, call.path)

\* The extension of each content kind, as the claims state it.
CanonicalExt(k) ==
  CASE k = FT_TEXT -> <<".", "t", "x", "t">>
    [] k \in {FT_JSON, FT_JSON_DICT} -> <<".", "j", "s", "o", "n">>
    [] k = FT_LOG -> <<".", "l", "o", "g">>
    [] OTHER -> <<>>

CustomWrite == call.cls = "C" /\ call.op = "write"

\* C11: CustomFileManager.write writes an object payload as its JSON text
\* whatever the kind, any payload of kind JSON or JSON_DICT as its JSON text (a
\* string comes out quoted), a string of kind TEXT, LOG or OTHER verbatim; the
\* extension of the path written follows from the kind alone.
C11_WriteSerialization ==
  (CustomWrite /\ Done /\ call.threw = "none")
    => /\ Returned /\ HasFile(fs, call.path)
       /\ LET t == FileAt(fs, call.path).text
              d == call.data
              e == CanonicalExt(call.kind)
          IN /\ TypeOf(d) = "object" => t = JSONstringify(d)
             /\ call.kind \in {FT_JSON, FT_JSON_DICT} => t = JSONstringify(d)
             /\ (TypeOf(d) = "string" /\ call.kind \in {FT_JSON, FT_JSON_DICT})
                  => (t # d.v /\ JSONparse(t) = d)
             /\ (TypeOf(d) = "string" /\ call.kind \in {FT_TEXT, FT_LOG, FT_OTHER})
                  => t = d.v
             /\ call.path = getAbsolutePath(IF EndsWith(call.file, e) THEN call.file
                                            ELSE call.file \o e, call.configDir)
             /\ call.trace = <<Ev("writeString", call.path)>>

C11_Witness ==
  /\ CustomWrite /\ Done /\ call.data = ObjA1 /\ call.kind = FT_TEXT
  /\ HasFile(fs, call.path) /\ FileAt(fs, call.path).text = TObjA1
  /\ EndsWith(call.path, <<".", "t", "x", "t">>)

\* s.startsWith(prefix)
StartsWith(s, prefix) == Len(prefix) <= Len(s) /\ SubSeq(s, 1, Len(prefix)) = prefix

\* The backend and the roots are those of the construction.
BackendAsConstructed ==
  /\ fm = IF ctor.iCloudThrows \/ ctor.documentsDirectoryThrows THEN "local" ELSE "iCloud"
  /\ \A f \in fs : f.cloud = "local" <=> fm = "local"
  /\ call.path # EMPTY
       => StartsWith(call.path,
                     IF call.cls = "C" /\ ~call.configDir
                     THEN <<"d", "/">> ELSE <<"d", "/", "b", "/">>)

\* C20: the backend is the cloud store when FileManager.iCloud() and its
\* documentsDirectory() both succeeded at construction and the local store
\* otherwise, and no operation of either class changes the backend or the root
\* its paths are resolved against.
C20_BackendFixedAtConstruction ==
  BackendAsConstructed /\ [][fm' = fm /\ ctor' = ctor /\ BackendAsConstructed']_vars

C20_Witness ==
  /\ fm = "local" /\ ctor.documentsDirectoryThrows
  /\ CustomWrite /\ Done /\ HasFile(fs, call.path)
  /\ FileAt(fs, call.path).cloud = "local"

\* typeByExtension was applied to what extensionByType returned, and
\* extensionByType (omitDot = true) to what typeByExtension returned.
TypeOfExtension ==
  Done /\ call.op = "typeByExtension" /\ call.from = "extensionByType"
ExtensionOfType ==
  Done /\ call.op = "extensionByType" /\ call.from = "typeByExtension"

\* C12 as stated: for every kind k, with and without the leading dot,
\* typeByExtension(extensionByType(k)) returns k, and for every mapped
\* extension e, extensionByType(typeByExtension(e), true) returns e.
C12_InverseForEveryKind ==
  /\ TypeOfExtension => (Returned /\ call.ret.v = call.kind)
  /\ ExtensionOfType => call.sret = call.arg

\* C12, amended: typeByExtension(extensionByType(k, true)) returns k for k in
\* TEXT, JSON, LOG and JSON for JSON_DICT; it raises for OTHER and whenever the
\* extension has its leading dot; extensionByType(typeByExtension(e), true)
\* returns e for every e that typeByExtension maps.
C12_InverseOnMappedKinds ==
  /\ (TypeOfExtension /\ call.omitDot /\ call.kind \in {FT_TEXT, FT_JSON, FT_LOG})
       => (Returned /\ call.ret.v = call.kind)
  /\ (TypeOfExtension /\ call.omitDot /\ call.kind = FT_JSON_DICT)
       => (Returned /\ call.ret.v = FT_JSON)
  /\ (TypeOfExtension /\ (~call.omitDot \/ call.kind = FT_OTHER))
       => call.outcome = "raised"
  /\ ExtensionOfType => (Returned /\ call.sret = call.arg)

C12_Witness ==
  /\ TypeOfExtension /\ call.omitDot /\ call.kind = FT_LOG
  /\ Returned /\ call.ret.v = FT_LOG

\* C13: typeByExtension returns a content kind for "txt", "json" and "log" and
\* raises the unknown-extension error for every other string; it makes no call
\* of the backend either way.
C13_UnknownExtensionRaises ==
  (Done /\ call.op = "typeByExtension")
    => /\ Returned <=> call.arg \in {<<"t", "x", "t">>, <<"j", "s", "o", "n">>,
                                    <<"l", "o", "g">>}
       /\ Returned => (call.ret.v \in FileType /\ call.threw = "none")
       /\ ~Returned => (call.outcome = "raised" /\ call.threw = "unknown extension"
                        /\ call.ret = Undefined)
       /\ call.trace = <<>> /\ fs = {}

C13_Witness ==
  /\ Done /\ call.op = "typeByExtension" /\ call.from = "-"
  /\ call.arg = <<".", "t", "x", "t">> /\ call.outcome = "raised"

\* A message as a result keeps it: an empty string is no message.
Kept(m) == IF m = Str("") THEN Undefined ELSE m

\* fromDataResponse was applied to the result of new DataResponse(p, s0, m).
FromNew == Done /\ call.op = "fromDataResponse" /\ call.from = "new"

\* C14 as stated: fromDataResponse(new DataResponse(p, s0, m), s1) has data p,
\* msg m and status s1, for every payload, every message and all statuses.
C14_CopyKeepsEveryMessage ==
  FromNew => /\ call.result.data = call.data
             /\ call.result.msg = call.msg
             /\ call.result.status = call.status

\* C14, amended: fromDataResponse(new DataResponse(p, s0, m), s1) has data p and
\* status s1; its msg is m when m is a non-empty string and undefined when m is
\* absent or the empty string.
C14_CopyKeepsPayloadAndMessage ==
  FromNew => /\ Returned
             /\ call.result.data = call.data
             /\ call.result.msg = Kept(call.msg)
             /\ call.result.status = call.status

C14_Witness ==
  /\ FromNew /\ call.data = ObjA1 /\ call.msg = Str("m")
  /\ call.resp.status = ERROR /\ call.status = CACHED
  /\ call.result = [data |-> ObjA1, status |-> CACHED, msg |-> Str("m")]

\* C15: isEmpty, in its instance and its static form, is true iff the payload
\* is null or undefined, whatever the status.
C15_EmptyIffNoPayload ==
  (Done /\ call.op = "isEmpty")
    => /\ Returned
       /\ call.ret = Bool(call.resp.data \in {Null, Undefined})
       /\ call.form \in {"instance", "static"}

C15_Witness ==
  /\ Done /\ call.op = "isEmpty" /\ call.form = "instance"
  /\ call.resp.data = Num0 /\ call.resp.status = NOT_FOUND
  /\ call.ret = Bool(FALSE)

\* C16: succeeded() is true iff the status is OK or CACHED, whether the payload
\* is present or not.
C16_SucceededIffOkOrCached ==
  (Done /\ call.op = "succeeded")
    => /\ Returned
       /\ call.ret = Bool(call.resp.status \in {"OK", "cached"})
       /\ call.resp.status \in {"offline", "error", "not found", "api error"}
            => call.ret = Bool(FALSE)

C16_Witness ==
  /\ Done /\ call.op = "succeeded" /\ call.form = "instance"
  /\ call.resp.status = CACHED /\ call.resp.data = Null
  /\ call.ret = Bool(TRUE)

\* C17: cached(x) of a DataResponse x has status CACHED and the data and msg
\* of x, not x itself as its data; cached(x) of a raw value has status CACHED,
\* data x and no message.
C17_CachedCopiesOrWraps ==
  (Done /\ call.op = "cached")
    => /\ Returned /\ call.result.status = "cached"
       /\ call.from # "-"
            => /\ call.result.data = call.resp.data
               /\ call.result.msg = call.resp.msg
               /\ call.result.data # call.resp
       /\ call.from = "-"
            => (call.result.data = call.data /\ call.result.msg = Undefined)

C17_Witness ==
  /\ Done /\ call.op = "cached" /\ call.from = "error"
  /\ call.resp = [data |-> Null, status |-> ERROR, msg |-> Str("m")]
  /\ call.result = [data |-> Null, status |-> CACHED, msg |-> Str("m")]

\* The status the constructor called names, and the data it was given.
NamedStatus ==
  CASE call.op = "notFound" -> "not found"
    [] call.op = "error" -> "error"
    [] call.op = "apiError" -> "api error"
    [] call.op = "ok" -> "OK"
    [] OTHER -> IF call.status = Omitted THEN "OK" ELSE call.status

Empties == {"empty", "notFound", "error", "apiError"}

\* A settled call of a constructor, not passed on yet.
Constructed(ops) == Done /\ call.cls = "D" /\ call.op \in ops /\ call.from = "-"

\* C18 as stated: empty(s, m) has null data, status s (OK when omitted) and msg
\* m; notFound(m), error(m) and apiError(m) are empty with their status; ok(d, m)
\* has data d, status OK and msg m.
C18_ConstructorsKeepEveryMessage ==
  Constructed(Empties \cup {"ok"})
    => /\ call.result.status = NamedStatus
       /\ call.result.data = IF call.op = "ok" THEN call.data ELSE Null
       /\ call.result.msg = call.msg

\* C18, amended: the same, with msg m when m is a non-empty string and undefined
\* when m is omitted or the empty string.
C18_ConstructorsNameTheirStatus ==
  Constructed(Empties \cup {"ok"})
    => /\ Returned
       /\ call.result.status = NamedStatus
       /\ call.result.data = IF call.op = "ok" THEN call.data ELSE Null
       /\ call.result.msg = Kept(call.msg)

C18_Witness ==
  /\ Constructed({"apiError"}) /\ call.msg = Str("m")
  /\ call.result = [data |-> Null, status |-> API_ERROR, msg |-> Str("m")]

\* The calls of DataResponse that are not empty, notFound, error or apiError.
Silent == {"new", "ok", "cached", "fromDataResponse", "isEmpty", "succeeded"}

\* C19 as stated: empty, notFound, error and apiError emit exactly one warning
\* when a message is given and none when it is omitted, the result is what it
\* is without the emission, and no other constructor or predicate emits one.
C19_WarnsForEveryMessage ==
  /\ (Done /\ call.cls = "D" /\ call.op \in Empties)
       => /\ call.warns = IF call.msg = Undefined THEN 0 ELSE 1
          /\ call.result = [data |-> Null, status |-> NamedStatus, msg |-> Kept(call.msg)]
  /\ (Done /\ call.cls = "D" /\ call.op \in Silent) => call.warns = 0

\* C19, amended: one warning when the message is a non-empty string, none when
\* it is omitted or the empty string; the rest as stated.
C19_WarnsForNonEmptyMessage ==
  /\ (Done /\ call.cls = "D" /\ call.op \in Empties)
       => /\ call.warns = IF call.msg \in {Undefined, Str("")} THEN 0 ELSE 1
          /\ call.result = [data |-> Null, status |-> NamedStatus, msg |-> Kept(call.msg)]
  /\ (Done /\ call.cls = "D" /\ call.op \in Silent) => call.warns = 0

C19_Witness ==
  /\ Done /\ call.cls = "D" /\ call.op = "empty" /\ call.status = OFFLINE
  /\ call.msg = Str("m") /\ call.warns = 1
  /\ call.result = [data |-> Null, status |-> OFFLINE, msg |-> Str("m")]

\* C27: every result CustomFileManager.read and the NewFileManager safe reads
\* return has status OK, ERROR or NOT_FOUND, and one with status ERROR or
\* NOT_FOUND has no payload and no message.
C27_ReadStatuses ==
  ((CustomRead \/ SafeRead) /\ Done /\ Returned)
    => /\ call.result.status \in {"OK", "error", "not found"}
       /\ call.result.status \in {"error", "not found"}
            => (call.result.data = Null /\ call.result.msg = Undefined)

C27_Witness ==
  /\ CustomRead /\ Done /\ Returned /\ call.kind = FT_JSON_DICT
  /\ call.text = TArr /\ call.result = [data |-> Null, status |-> ERROR, msg |-> Undefined]

\* C28: CustomFileManager.read with kind JSON, and readJSONS, on a file whose
\* content is the JSON text null return status OK with a null payload:
\* succeeded() and isEmpty() are both true of the result.
C28_NullIsASuccessfulRead ==
  (((CustomRead /\ call.kind = FT_JSON) \/ (SafeRead /\ call.op = "readJSONS"))
     /\ Done /\ call.text = "null")
    => /\ Returned
       /\ call.result = [data |-> Null, status |-> "OK", msg |-> Undefined]
       /\ succeeded(call.result) /\ thisIsEmpty(call.result)

C28_Witness ==
  /\ SafeRead /\ call.op = "readJSONS" /\ Done /\ call.text = TNull
  /\ call.result.status = OK /\ call.result.data = Null
  /\ succeeded(call.result) /\ isEmpty(call.result)

\* The backend calls of the settled read, by name, in their order.
TraceNames == [i \in DOMAIN call.trace |-> call.trace[i].f]

RemovedDuringDownload ==
  /\ Done /\ call.seen = "remote" /\ dl = "resolved"
  /\ ~HasFile(fs, call.path)

\* C24: a safe read whose file is removed while it waits for the download
\* resolves to status ERROR or NOT_FOUND and raises nothing.  (The raw read of
\* readSmartWrapper throws on the missing file, outside any try.)
C24_RemovalWhileSuspended ==
  ((CustomRead \/ SafeRead) /\ RemovedDuringDownload)
    => (Returned /\ call.result.status \in {ERROR, NOT_FOUND})

\* C29: new DataResponse(d, s, ""), ok(d, "") and empty(s, "") return a result
\* without msg, and empty(s, "") emits no warning; a non-empty message is the
\* msg of the result.
C29_EmptyMessageIsNoMessage ==
  Constructed({"new", "ok", "empty"})
    => /\ call.msg = Str("") => (call.result.msg = Undefined /\ call.warns = 0)
       /\ (call.msg.t = "string" /\ call.msg # Str("")) => call.result.msg = call.msg

C29_Witness ==
  /\ Constructed({"empty"}) /\ call.msg = Str("") /\ call.status = ERROR
  /\ call.result = [data |-> Null, status |-> ERROR, msg |-> Undefined]
  /\ call.warns = 0

\* A write operation of either class.
WriteOp ==
  \/ call.cls = "C" /\ call.op = "write"
  \/ call.cls = "N" /\ call.op \in {"write", "writeString", "writeJSON"}

\* C22: when the backend's write primitive fails, write, writeString and
\* writeJSON raise its failure to the caller and return no result; a write that
\* succeeds has made exactly one backend write call.
C22_WritesFailFast ==
  (WriteOp /\ Done)
    => /\ call.threw = "write"
            => (call.outcome = "raised" /\ call.result = NoResponse)
       /\ call.threw = "none"
            => /\ Returned /\ call.result = NoResponse
               /\ Len(call.trace) = 1
               /\ call.trace[1].f \in {"write", "writeString"}
               /\ call.trace[1].p = call.path
               /\ HasFile(fs, call.path) /\ FileAt(fs, call.path).text = call.text

C22_Witness ==
  /\ call.cls = "N" /\ call.op = "writeJSON" /\ Done
  /\ call.threw = "write" /\ call.outcome = "raised" /\ fs = {}

CustomDataSave == call.cls = "S" /\ call.op = "save" /\ Done

\* C30: CustomData.save() makes no backend call when no file manager is
\* registered; otherwise it makes exactly one write, of the JSON text of the
\* storage object, to <root>/<filestub><id>.json: the extension is not
\* appended again to the name that already ends with it.
C30_SaveWritesOnce ==
  CustomDataSave
    => /\ call.form \in {"undefined", "null"}
            => (call.trace = <<>> /\ Returned /\ call.path = EMPTY)
       /\ call.form = "fm"
            => \E s \in Filestubs :
                 LET name == (IF s.given THEN s.s ELSE <<>>) \o call.arg
                             \o <<".", "j", "s", "o", "n">>
                 IN /\ call.file = name
                    /\ call.kind = FT_JSON
                    /\ call.trace = <<Ev("writeString", <<"d", "/", "b", "/">> \o name)>>
                    /\ ~EndsWith(call.path, <<".", "j", "s", "o", "n", ".", "j", "s", "o", "n">>)
                    /\ call.threw = "none"
                         => /\ HasFile(fs, call.path)
                            /\ FileAt(fs, call.path).text = JSONstringify(call.data)

C30_Witness ==
  /\ CustomDataSave /\ call.form = "fm" /\ Returned
  /\ call.path = <<"d", "/", "b", "/", "x", "x", ".", "j", "s", "o", "n">>
  /\ HasFile(fs, call.path) /\ FileAt(fs, call.path).text = TObjA1

ThinDelegations == PathDelegations \cup {"libraryDirectory", "fileName"}
ThinDelegation == call.cls = "N" /\ call.op \in ThinDelegations

\* The path of the backend's library directory.
LibraryPath == <<"l">>

\* C26: every thin delegation of NewFileManager ends after one call of the
\* backend method of its name and returns: it does not call itself, and
\* libraryDirectory() returns the backend's library directory path,
\* fileName(path, includeExt) asks the backend with the root-resolved path.
C26_DelegationsCallBackendOnce ==
  ThinDelegation
    => /\ call.depth <= 1
       /\ Done
            => /\ Returned
               /\ Len(call.trace) = 1
               /\ call.trace[1].f = call.op
               /\ call.op = "libraryDirectory" => call.sret = LibraryPath
               /\ call.op = "fileName"
                    => call.trace[1].p = <<"d", "/", "b", "/">> \o call.file

\* The relative path an operation of NewFileManager resolves: the ".json" of
\* the JSON accessors is added to a name that lacks it.
JSONAccessors == {"readJSONS", "readJSONDictS", "readJSON", "writeJSON"}
RelativePath ==
  IF /\ call.op \in JSONAccessors
     /\ call.op = "writeJSON" \/ call.autoExt
     /\ ~EndsWith(call.file, <<".", "j", "s", "o", "n">>)
  THEN call.file \o <<".", "j", "s", "o", "n">>
  ELSE call.file

\* The name CustomFileManager resolves: read and write add the extension of the
\* kind to a name that lacks it.
CustomName ==
  IF call.op \in {"read", "write"} /\ ~EndsWith(call.file, CanonicalExt(call.kind))
  THEN call.file \o CanonicalExt(call.kind)
  ELSE call.file

\* C25: every backend call of an operation gets the same path: for
\* NewFileManager the root, a separator and the relative path, the root being
\* there once; for CustomFileManager the name under the root when configDir is
\* true and under the documents directory when it is false. An operation that
\* takes a path and has ended has passed it to the backend, and a path handed
\* on inside the accessor is the relative path or that resolved path.
C25_RootPrependedOnce ==
  /\ (call.cls = "N" /\ call.pc # "idle" /\ call.op # "libraryDirectory")
       => LET resolved == <<"d", "/", "b", "/">> \o RelativePath
          IN /\ \A i \in DOMAIN call.trace : call.trace[i].p = resolved
             /\ IF call.op = "fileName"
                THEN call.arg \in {call.file, resolved}
                ELSE call.path = resolved
             /\ Done => call.trace # <<>>
  /\ (call.cls = "C" /\ call.pc # "idle" /\ call.op \in {"read", "write", "remove"})
       => LET resolved == (IF call.configDir THEN <<"d", "/", "b", "/">>
                           ELSE <<"d", "/">>) \o CustomName
          IN /\ \A i \in DOMAIN call.trace : call.trace[i].p = resolved
             /\ call.path = resolved

Constructed1 == call.op = "constructor" /\ Done
WithBasedir == call.cls = "C" \/ (call.form = "given" /\ call.arg # <<>>)

\* C21: a constructor given a base directory name resolves the root to the
\* documents directory, a separator and the name; when it returns the root is
\* a directory of the backend; it calls createDirectory with the root, once,
\* when the root was not a directory, and not at all when it was, in which case
\* it returns. A NewFileManager constructed without a base directory has the
\* documents directory as root, returns, and makes no isDirectory or
\* createDirectory call.
C21_RootIsADirectory ==
  Constructed1
    => /\ WithBasedir
            => /\ call.path = <<"d", "/">> \o call.arg
               /\ Returned => call.path \in dirs
               /\ call.seen = "directory"
                    => (Returned /\ call.trace = <<Ev("isDirectory", call.path)>>)
               /\ call.seen # "directory"
                    => call.trace = <<Ev("isDirectory", call.path),
                                      Ev("createDirectory", call.path)>>
               /\ call.threw = "none" <=> Returned
       /\ ~WithBasedir
            => /\ call.cls = "N"
               /\ call.path = <<"d">>
               /\ Returned
               /\ call.trace = <<>>

C21_Witness ==
  /\ Constructed1 /\ call.cls = "N" /\ call.arg = <<"c">> /\ Returned
  /\ call.seen = "absent" /\ <<"d", "/", "c">> \in dirs
  /\ Calls("createDirectory") = 1

C21_WitnessExisting ==
  /\ Constructed1 /\ call.cls = "C" /\ call.seen = "directory" /\ Returned
  /\ Calls("createDirectory") = 0

C21_WitnessNoBasedir ==
  /\ Constructed1 /\ call.cls = "N" /\ call.form = "undefined" /\ Returned
  /\ call.path = <<"d">>

====
